---- MODULE Spec2Model ----
(***************************************************************************)
(* Generation orchestrator of ai-svg-compare (compare.py): the result      *)
(* cache, the three backend adapters, the codex gate, the task matrix and  *)
(* main's dispatch / merge / persist / report sequence.                    *)
(*                                                                         *)
(* Text is modelled by TLA+ strings; Python's None is the empty tuple and  *)
(* a present value v is the one-element tuple <<v>>.                       *)
(***************************************************************************)
EXTENDS Integers, Sequences, FiniteSets, TLC

None == <<>>

Some(v) == <<v>>

\* Python truthiness of an optional string: present and not empty.
Truthy(o) == o # None /\ Len(o[1]) > 0

\* `s or None` for a string s.
OrNone(s) == IF Len(s) > 0 THEN Some(s) ELSE None

Range(s) == {s[i] : i \in DOMAIN s}

(***************************************************************************)
(* Static configuration: prompt catalogue, groups and model roster.        *)
(***************************************************************************)
PROMPTS == <<"pelican", "animated_pelican">>

PROMPT_GROUPS == << [label |-> "Pelican on Bicycle", sp |-> "pelican", ap |-> "animated_pelican"] >>

GEMINI_MODELS == <<"gemini-3-flash-preview">>

CLAUDE_MODELS == <<"claude-sonnet-4-5">>

CODEX_MODELS == <<"gpt-5.3-codex">>

CLAUDE_TIMEOUT == 600

CODEX_TIMEOUT == 300

\* The budget wait_for is given by the adapter fn.
TimeoutOf(fn) == IF fn = "call_claude" THEN CLAUDE_TIMEOUT ELSE CODEX_TIMEOUT

RosterOf(models, provider, fn) ==
    [i \in 1..Len(models) |-> [m |-> models[i], provider |-> provider, fn |-> fn]]

\* Slip: the Codex models are bound to call_claude.
ALL_MODELS_ORDERED_crossed ==
    RosterOf(GEMINI_MODELS, "Gemini", "call_gemini")
    \o RosterOf(CLAUDE_MODELS, "Claude", "call_claude")
    \o RosterOf(CODEX_MODELS, "Codex", "call_claude")

ALL_MODELS_ORDERED ==
    RosterOf(GEMINI_MODELS, "Gemini", "call_gemini")
    \o RosterOf(CLAUDE_MODELS, "Claude", "call_claude")
    \o RosterOf(CODEX_MODELS, "Codex", "call_codex")

(***************************************************************************)
(* Helpers.                                                                *)
(***************************************************************************)
cache_key(prompt_id, model) == prompt_id \o "::" \o model

Lower(c) ==
    CASE c = "S" -> "s" [] c = "V" -> "v" [] c = "G" -> "g"
      [] c = "C" -> "c" [] c = "R" -> "r" [] c = "I" -> "i"
      [] c = "P" -> "p" [] c = "T" -> "t" [] OTHER -> c

\* Does pat (lower case) match text at position i, ignoring case?
MatchAt(text, i, pat) ==
    /\ i >= 1
    /\ i + Len(pat) - 1 <= Len(text)
    /\ \A k \in 1..Len(pat) : Lower(SubSeq(text, i + k - 1, i + k - 1)) = SubSeq(pat, k, k)

\* re.search(open [\s\S]*? close, text, IGNORECASE): <<first, last>> of the
\* leftmost match with the nearest closing tag, or <<0, 0>>.
SearchSpan(text, open, close) ==
    LET starts == {i \in 1..Len(text) :
                      /\ MatchAt(text, i, open)
                      /\ \E j \in (i + Len(open))..Len(text) : MatchAt(text, j, close)}
    IN IF starts = {} THEN <<0, 0>>
       ELSE LET i == CHOOSE a \in starts : \A b \in starts : a <= b
                ends == {j \in (i + Len(open))..Len(text) : MatchAt(text, j, close)}
                j == CHOOSE a \in ends : \A b \in ends : a <= b
            IN <<i, j + Len(close) - 1>>

\* Slip: greedy match, up to the last closing tag.
extract_svg_greedy(text) ==
    LET m == SearchSpan(text, "<svg", "</svg>")
        ends == {j \in 1..Len(text) : MatchAt(text, j, "</svg>")}
    IN IF m[1] = 0 THEN ""
       ELSE SubSeq(text, m[1], (CHOOSE a \in ends : \A b \in ends : a >= b) + 5)

extract_svg(text) ==
    LET m == SearchSpan(text, "<svg", "</svg>")
    IN IF m[1] = 0 THEN "" ELSE SubSeq(text, m[1], m[2])

RECURSIVE sanitize_svg(_)
sanitize_svg(svg) ==
    LET m == SearchSpan(svg, "<script", "</script>")
    IN IF m[1] = 0 THEN svg
       ELSE SubSeq(svg, 1, m[1] - 1) \o sanitize_svg(SubSeq(svg, m[2] + 1, Len(svg)))

IsSpace(c) == c \in {" ", "\n", "\t"}

\* str.strip()
RECURSIVE Strip(_)
Strip(s) ==
    IF Len(s) = 0 THEN s
    ELSE IF IsSpace(SubSeq(s, 1, 1)) THEN Strip(SubSeq(s, 2, Len(s)))
    ELSE IF IsSpace(SubSeq(s, Len(s), Len(s))) THEN Strip(SubSeq(s, 1, Len(s) - 1))
    ELSE s

\* `a or b` for strings.
StrOr(a, b) == IF Len(a) > 0 THEN a ELSE b

PROMPT_TEXT(pid) == "Generate an SVG: " \o pid

(***************************************************************************)
(* The persisted store: json.dumps / json.loads of the cache mapping.      *)
(* A JSON string is <<"str", s>>, JSON null is <<"null">>.                 *)
(***************************************************************************)
JsonOfOpt(o) == IF o = None THEN <<"null">> ELSE <<"str", o[1]>>

OptOfJson(j) == IF j[1] = "null" THEN None ELSE Some(j[2])

\* A field of an entry: "provider" holds a string, any other field a string
\* or None.
JsonOfField(f, v) == IF f = "provider" THEN <<"str", v>> ELSE JsonOfOpt(v)

FieldOfJson(f, j) == IF f = "provider" THEN j[2] ELSE OptOfJson(j)

\* Every key and every field of every entry is written, whatever its name.
\* Slip: the artifact is not written out.
json_dumps_null_svg(cache) ==
    [k \in DOMAIN cache |->
        [f \in DOMAIN cache[k] |-> IF f = "svg" THEN <<"null">> ELSE JsonOfField(f, cache[k][f])]]

json_dumps(cache) ==
    [k \in DOMAIN cache |-> [f \in DOMAIN cache[k] |-> JsonOfField(f, cache[k][f])]]

\* Slip: the artifact is not read back.
json_loads_without_svg(doc) ==
    [k \in DOMAIN doc |->
        [provider |-> doc[k].provider[2],
         svg      |-> None,
         error    |-> OptOfJson(doc[k].error)]]

json_loads(doc) ==
    [k \in DOMAIN doc |-> [f \in DOMAIN doc[k] |-> FieldOfJson(f, doc[k][f])]]

EmptyDict == [k \in {} |-> None]

\* CACHE_FILE before the first run.
NoFile == [exists |-> FALSE, complete |-> FALSE, doc |-> EmptyDict]

(***************************************************************************)
(* Results of the adapters, as the code builds them.                       *)
(***************************************************************************)
\* Slip: the extracted text is returned as it is, found or not.
ExtractResultUnchecked(provider, raw) ==
    [provider |-> provider, svg |-> Some(extract_svg(raw)), error |-> None]

\* return {"provider": p, "svg": svg or None, "error": None if svg else "No SVG found in response"}
ExtractResult(provider, raw) ==
    LET svg == extract_svg(raw)
    IN [provider |-> provider,
        svg      |-> OrNone(svg),
        error    |-> IF Len(svg) > 0 THEN None ELSE Some("No SVG found in response")]

\* return {"provider": p, "svg": None, "error": err}
ErrorResult(provider, err) == [provider |-> provider, svg |-> None, error |-> Some(err)]

TimeoutResult(provider, budget) ==
    ErrorResult(provider, "Timed out after " \o ToString(budget) \o "s")

\* call_claude after communicate() returned.
ClaudeExitResult(rc, stdout, stderr) ==
    IF rc # 0
    THEN ErrorResult("Claude", StrOr(Strip(stderr), "exit code " \o ToString(rc)))
    ELSE ExtractResult("Claude", stdout)

\* _codex_inner after communicate() returned.
CodexExitResult(rc, stdout, stderr) ==
    IF rc # 0
    THEN ErrorResult("Codex", StrOr(Strip(stderr), StrOr(Strip(stdout), "exit code " \o ToString(rc))))
    ELSE ExtractResult("Codex", stdout)

(***************************************************************************)
(* What the outside world can answer.                                      *)
(***************************************************************************)
\* Text a backend can produce (response.text, stdout).
RawTexts == {"Here: <svg>A</svg> or <SVG>B</svg>\n", "I cannot draw."}

\* <<returncode, stdout, stderr>> of a subprocess that ended by itself.
ProcExits == {<<0, t, "">> : t \in RawTexts} \cup {<<1, "", "boom\n">>}

\* str(e) of an exception raised by a backend call.
ApiErrors == {"503 UNAVAILABLE"}

SpawnErrors == {"[Errno 2] No such file or directory"}

\* The process environment: the values of the two API key variables.
Envs ==
    { [GOOGLE_API_KEY |-> None, GEMINI_API_KEY |-> None],
      [GOOGLE_API_KEY |-> None, GEMINI_API_KEY |-> Some("k")] }

NoEnv == [GOOGLE_API_KEY |-> None, GEMINI_API_KEY |-> None]

\* os.environ.get(name) / os.environ.get(name, "")
EnvGet(e, name, default) ==
    IF name = "GOOGLE_API_KEY"
    THEN (IF e.GOOGLE_API_KEY = None THEN default ELSE e.GOOGLE_API_KEY)
    ELSE (IF e.GEMINI_API_KEY = None THEN default ELSE e.GEMINI_API_KEY)

\* api_key = os.environ.get("GOOGLE_API_KEY") or os.environ.get("GEMINI_API_KEY", "")
ApiKey(e) ==
    IF Truthy(EnvGet(e, "GOOGLE_API_KEY", None))
    THEN EnvGet(e, "GOOGLE_API_KEY", None)[1]
    ELSE EnvGet(e, "GEMINI_API_KEY", Some(""))[1]

(***************************************************************************)
(* The report (index.html), reduced to what it shows.                      *)
(***************************************************************************)
\* cache.get(cache_key(pid, m), {}).get("svg")
CachedSvg(cache, pid, m) ==
    IF cache_key(pid, m) \in DOMAIN cache THEN cache[cache_key(pid, m)].svg ELSE None

models_for_pid(cache, pid) ==
    LET HasSvg(r) == Truthy(CachedSvg(cache, pid, r.m))
    IN SelectSeq(ALL_MODELS_ORDERED, HasSvg)

\* One card per model of pid_models (sub_panel).
sub_panel(cache, pid, pid_models) ==
    [i \in 1..Len(pid_models) |->
        [model    |-> pid_models[i].m,
         provider |-> pid_models[i].provider,
         canvas   |-> sanitize_svg(CachedSvg(cache, pid, pid_models[i].m)[1])]]

build_html(cache) ==
    LET Active(g) == \E i \in DOMAIN ALL_MODELS_ORDERED :
                        Truthy(CachedSvg(cache, g.sp, ALL_MODELS_ORDERED[i].m))
        active_groups == SelectSeq(PROMPT_GROUPS, Active)
    IN [i \in 1..Len(active_groups) |->
          [gid    |-> active_groups[i].sp,
           static |-> sub_panel(cache, active_groups[i].sp, models_for_pid(cache, active_groups[i].sp)),
           anim   |-> sub_panel(cache, active_groups[i].ap, models_for_pid(cache, active_groups[i].ap))]]

(***************************************************************************)
(* State.                                                                  *)
(***************************************************************************)
VARIABLES
    file,          \* CACHE_FILE (svg_cache.json)
    report,        \* OUT_FILE (index.html): None or Some(rendered page)
    pc,            \* where the process is: "idle" when no process runs
    exit,          \* how the last process ended
    env,           \* os.environ of the running process
    prompt_filter, \* main's argument: None or Some(<<pid>>)
    cache,         \* main's in-memory cache dict
    to_call,       \* main's task list
    cached_count,  \* main's count of cached pairs in scope
    tasks,         \* the coroutines handed to asyncio.gather, one per to_call entry
    sem_value,     \* _codex_sem._value
    sem_waiters,   \* _codex_sem._waiters: <<task index, woken>> in arrival order
    saves,         \* how many times this process has called save_cache
    store_at_load, \* CACHE_FILE as this process found it when main called load_cache
    \* History, kept for the properties only; the program never reads it.
    last_failed,   \* <<pid, m>> dispatched before and not resolved with an artifact since
    ever_stored,   \* keys that CACHE_FILE has held with an artifact
    batch_ok,      \* this run: nothing was dispatched that did not yield an artifact
    prev,          \* scope and batch_ok of the run that just completed
    argv,          \* the command line of the last process that was started
    \* Inputs and outputs of the helper functions applied on their own.
    fn_in,
    fn_out

vars == <<file, report, pc, exit, env, prompt_filter, cache, to_call, cached_count,
          tasks, sem_value, sem_waiters, saves, store_at_load, last_failed, ever_stored,
          batch_ok, prev, argv, fn_in, fn_out>>

histVars == <<last_failed, ever_stored, batch_ok, prev>>

fnVars == <<fn_in, fn_out>>

NoPrev == [scope |-> <<>>, all_ok |-> FALSE]

procVars == <<env, prompt_filter, cache, to_call, cached_count, tasks, sem_value, sem_waiters,
              saves, store_at_load>>

\* sys.argv[1:], reduced to the two options __main__ looks for.
NoArgs == [html_only |-> FALSE, prompt |-> None]

\* Process-local state when no process runs, and right after module import.
Fresh ==
    /\ env' = NoEnv
    /\ prompt_filter' = None
    /\ cache' = EmptyDict
    /\ to_call' = <<>>
    /\ cached_count' = 0
    /\ tasks' = <<>>
    /\ sem_value' = 1
    /\ sem_waiters' = <<>>
    /\ saves' = 0
    /\ store_at_load' = NoFile

Init ==
    /\ file = NoFile
    /\ report = None
    /\ pc = "idle"
    /\ exit = "none"
    /\ env = NoEnv
    /\ prompt_filter = None
    /\ cache = EmptyDict
    /\ to_call = <<>>
    /\ cached_count = 0
    /\ tasks = <<>>
    /\ sem_value = 1
    /\ sem_waiters = <<>>
    /\ last_failed = {}
    /\ ever_stored = {}
    /\ batch_ok = FALSE
    /\ prev = NoPrev
    /\ fn_in = None
    /\ fn_out = None
    /\ saves = 0
    /\ store_at_load = NoFile
    /\ argv = NoArgs

\* A prompt id that is not in the catalogue.
UnknownPid == "unicorn"

InPrompts(pid) == \E i \in DOMAIN PROMPTS : PROMPTS[i] = pid

\* Slip: the store is never read back.
load_cache_forgets(f) == <<"ok", EmptyDict>>

\* load_cache(): <<"ok", dict>> or <<"raise">> (json.loads on a broken file).
load_cache(f) ==
    IF f.exists
    THEN (IF f.complete THEN <<"ok", json_loads(f.doc)>> ELSE <<"raise">>)
    ELSE <<"ok", EmptyDict>>

\* The process is gone: by sys.exit, by an uncaught exception or by a kill.
EndProcess(how) ==
    /\ pc' = "idle"
    /\ exit' = how
    /\ Fresh

(***************************************************************************)
(* __main__                                                                *)
(***************************************************************************)
\* python compare.py --html-only [--prompt p]: "--html-only" is looked for
\* first, the rest of the command line is not read.
RunHtmlOnly(p) ==
    /\ pc = "idle"
    /\ argv' = [html_only |-> TRUE, prompt |-> p]
    /\ LET c == load_cache(file)
       IN IF c[1] = "ok"
          THEN /\ report' = Some(build_html(c[2]))
               /\ EndProcess("exit 0")
          ELSE /\ report' = report
               /\ EndProcess("exception")
    /\ UNCHANGED <<file, histVars, fnVars>>

\* python compare.py --prompt <unknown id>
RunUnknownPrompt ==
    /\ pc = "idle"
    /\ ~InPrompts(UnknownPid)
    /\ argv' = [html_only |-> FALSE, prompt |-> Some(UnknownPid)]
    /\ EndProcess("exit 1")
    /\ UNCHANGED <<file, report, histVars, fnVars>>

\* Slip: the store is read without asking whether it exists.
MainLoadUnguarded(e, pf) ==
    /\ pc = "idle"
    /\ IF file.exists /\ file.complete
       THEN /\ pc' = "loaded"
            /\ exit' = "running"
            /\ env' = e
            /\ prompt_filter' = pf
            /\ cache' = json_loads(file.doc)
            /\ store_at_load' = file
            /\ UNCHANGED <<to_call, cached_count, tasks, sem_value, sem_waiters, saves, prev>>
       ELSE /\ EndProcess("exception")
            /\ prev' = NoPrev
    /\ argv' = [html_only |-> FALSE, prompt |-> IF pf = None THEN None ELSE Some(pf[1][1])]
    /\ UNCHANGED <<file, report, last_failed, ever_stored, batch_ok, fnVars>>

\* python compare.py [--prompt pid]: asyncio.run(main(prompt_filter)) up to
\* cache = load_cache().
MainLoad(e, pf) ==
    /\ pc = "idle"
    /\ LET c == load_cache(file)
       IN IF c[1] = "ok"
          THEN /\ pc' = "loaded"
               /\ exit' = "running"
               /\ env' = e
               /\ prompt_filter' = pf
               /\ cache' = c[2]
               /\ store_at_load' = file
               /\ UNCHANGED <<to_call, cached_count, tasks, sem_value, sem_waiters, saves, prev>>
          ELSE /\ EndProcess("exception")
               /\ prev' = NoPrev
    /\ argv' = [html_only |-> FALSE, prompt |-> IF pf = None THEN None ELSE Some(pf[1][1])]
    /\ UNCHANGED <<file, report, last_failed, ever_stored, batch_ok, fnVars>>

(***************************************************************************)
(* main: the task matrix.                                                  *)
(***************************************************************************)
\* Slip: the filter is not looked at.
active_prompts_unfiltered(pf) == PROMPTS

\* active_prompts = prompt_filter or list(PROMPTS.keys())
active_prompts(pf) == IF pf # None /\ Len(pf[1]) > 0 THEN pf[1] ELSE PROMPTS

\* Slip: the loops are nested the other way round (model-major).
AllPairsModelMajor(active) ==
    LET n == Len(active)
    IN [k \in 1..(n * Len(ALL_MODELS_ORDERED)) |->
          LET pid == active[((k - 1) % n) + 1]
              r   == ALL_MODELS_ORDERED[((k - 1) \div n) + 1]
          IN [pid |-> pid, m |-> r.m, provider |-> r.provider, fn |-> r.fn,
              pt |-> PROMPT_TEXT(pid)]]

\* for pid in active: for m, provider, fn in ALL_MODELS_ORDERED: ...
AllPairs(active) ==
    LET n == Len(ALL_MODELS_ORDERED)
    IN [k \in 1..(Len(active) * n) |->
          LET pid == active[((k - 1) \div n) + 1]
              r   == ALL_MODELS_ORDERED[((k - 1) % n) + 1]
          IN [pid |-> pid, m |-> r.m, provider |-> r.provider, fn |-> r.fn,
              pt |-> PROMPT_TEXT(pid)]]

\* Slip: the cache is looked up by prompt, not by (prompt, model).
NotCachedByPrompt(c, t) ==
    \A i \in DOMAIN ALL_MODELS_ORDERED : cache_key(t.pid, ALL_MODELS_ORDERED[i].m) \notin DOMAIN c

\* if key not in cache: to_call.append(...)
NotCached(c, t) == cache_key(t.pid, t.m) \notin DOMAIN c

\* Slip: every pair of the scope is submitted, cached or not.
BuildToCallAll(c, active) == AllPairs(active)

BuildToCall(c, active) ==
    LET Missing(t) == NotCached(c, t)
    IN SelectSeq(AllPairs(active), Missing)

\* Slip: every entry of the cache is counted, in scope or not.
CountCachedWholeStore(c, active) == Cardinality(DOMAIN c)

\* cached_count = sum(1 for pid in active_prompts for m, _, _ in ALL_MODELS_ORDERED
\*                    if cache_key(pid, m) in cache)
CountCached(c, active) ==
    Cardinality({k \in DOMAIN AllPairs(active) : ~NotCached(c, AllPairs(active)[k])})

\* Slip: the store is opened for writing while the matrix is built.
BuildMatrixOpensStore ==
    /\ pc = "loaded"
    /\ to_call' = BuildToCall(cache, active_prompts(prompt_filter))
    /\ cached_count' = CountCached(cache, active_prompts(prompt_filter))
    /\ pc' = "built"
    /\ file' = [exists |-> TRUE, complete |-> FALSE, doc |-> EmptyDict]
    /\ UNCHANGED <<report, exit, env, prompt_filter, cache, tasks, sem_value, sem_waiters,
                   saves, store_at_load, argv, histVars, fnVars>>

BuildMatrix ==
    /\ pc = "loaded"
    /\ to_call' = BuildToCall(cache, active_prompts(prompt_filter))
    /\ cached_count' = CountCached(cache, active_prompts(prompt_filter))
    /\ pc' = "built"
    /\ UNCHANGED <<file, report, exit, env, prompt_filter, cache, tasks, sem_value, sem_waiters,
                   saves, store_at_load, argv, histVars, fnVars>>

\* key = cache_key(pid, m) of a to_call entry.
KeyOf(t) == cache_key(t.pid, t.m)

\* The <<pid, m>> of the to_call entries at the indices in idx.
TaskIds(tc, idx) == {<<tc[i].pid, tc[i].m>> : i \in idx}

\* Indices of the coroutines that have not returned a Result with an artifact.
WithoutArtifact(ts) ==
    {i \in DOMAIN ts : ~(ts[i].st = "done" /\ Truthy(ts[i].result[1].svg))}

\* if to_call: tasks = [fn(m, pt) ...]; results = await asyncio.gather(*tasks)
Gather ==
    /\ pc = "built"
    /\ to_call # <<>>
    /\ tasks' = [i \in DOMAIN to_call |-> [st |-> "pending", result |-> None, proc |-> "none"]]
    /\ pc' = "gather"
    /\ last_failed' = last_failed \ TaskIds(to_call, DOMAIN to_call)
    /\ prev' = NoPrev
    /\ UNCHANGED <<file, report, exit, env, prompt_filter, cache, to_call, cached_count,
                   sem_value, sem_waiters, saves, store_at_load, argv, ever_stored, batch_ok,
                   fnVars>>

\* if to_call: is false
NoDispatch ==
    /\ pc = "built"
    /\ to_call = <<>>
    /\ pc' = "report"
    /\ batch_ok' = TRUE
    /\ UNCHANGED <<file, report, exit, procVars, last_failed, ever_stored, prev, argv, fnVars>>

(***************************************************************************)
(* The event loop.  gather() schedules the coroutines in list order and    *)
(* each runs to its first suspension before anything else is resumed.      *)
(***************************************************************************)
FirstPending(i) ==
    /\ pc = "gather"
    /\ i \in DOMAIN tasks
    /\ tasks[i].st = "pending"
    /\ \A j \in 1..(i - 1) : tasks[j].st # "pending"

AllStarted == \A j \in DOMAIN tasks : tasks[j].st # "pending"

\* Slip: the budget also runs while the coroutine waits for the gate.
SuspendedOrWaiting(i, fn) ==
    /\ pc = "gather"
    /\ AllStarted
    /\ i \in DOMAIN tasks
    /\ to_call[i].fn = fn
    /\ tasks[i].st \in {"external", "waiting"}

Suspended(i, fn) ==
    /\ pc = "gather"
    /\ AllStarted
    /\ i \in DOMAIN tasks
    /\ to_call[i].fn = fn
    /\ tasks[i].st = "external"

Resolve(ts, i, r, p) == [ts EXCEPT ![i] = [st |-> "done", result |-> Some(r), proc |-> p]]

taskFrame == <<file, report, pc, exit, env, prompt_filter, cache, to_call, cached_count,
               saves, store_at_load, argv, histVars, fnVars>>

(***************************************************************************)
(* call_gemini                                                             *)
(***************************************************************************)
\* genai.Client(api_key=api_key) refuses an empty key with ValueError.
ClientCtor(api_key) == IF api_key = "" THEN "raise" ELSE "ok"

\* First step: build the client (outside the try), then await the request.
call_gemini(i) ==
    /\ FirstPending(i)
    /\ to_call[i].fn = "call_gemini"
    /\ tasks' = [tasks EXCEPT ![i].st =
                    IF ClientCtor(ApiKey(env)) = "raise" THEN "raised" ELSE "external"]
    /\ UNCHANGED <<taskFrame, sem_value, sem_waiters>>

\* Slip: the adapter writes its artifact into main's cache itself.
gemini_response_streams(i, text) ==
    /\ Suspended(i, "call_gemini")
    /\ tasks' = Resolve(tasks, i, ExtractResult("Gemini", text), "none")
    /\ cache' = IF Truthy(ExtractResult("Gemini", text).svg)
                THEN (KeyOf(to_call[i]) :> ExtractResult("Gemini", text)) @@ cache
                ELSE cache
    /\ UNCHANGED <<file, report, pc, exit, env, prompt_filter, to_call, cached_count,
                   saves, store_at_load, argv, histVars, fnVars, sem_value, sem_waiters>>

\* generate_content returned a response.
gemini_response(i, text) ==
    /\ Suspended(i, "call_gemini")
    /\ tasks' = Resolve(tasks, i, ExtractResult("Gemini", text), "none")
    /\ UNCHANGED <<taskFrame, sem_value, sem_waiters>>

\* generate_content raised: except Exception as e.
gemini_error(i, e) ==
    /\ Suspended(i, "call_gemini")
    /\ tasks' = Resolve(tasks, i, ErrorResult("Gemini", e), "none")
    /\ UNCHANGED <<taskFrame, sem_value, sem_waiters>>

(***************************************************************************)
(* call_claude                                                             *)
(***************************************************************************)
\* create_subprocess_exec: the spawn fails (except Exception) or the child runs.
call_claude(i, spawn) ==
    /\ FirstPending(i)
    /\ to_call[i].fn = "call_claude"
    /\ tasks' = IF spawn = "ok"
                THEN [tasks EXCEPT ![i] = [st |-> "external", result |-> None, proc |-> "running"]]
                ELSE Resolve(tasks, i, ErrorResult("Claude", spawn), "none")
    /\ UNCHANGED <<taskFrame, sem_value, sem_waiters>>

\* communicate() returned within the budget.
claude_exit(i, x) ==
    /\ Suspended(i, "call_claude")
    /\ tasks' = Resolve(tasks, i, ClaudeExitResult(x[1], x[2], x[3]), "exited")
    /\ UNCHANGED <<taskFrame, sem_value, sem_waiters>>

\* Slip: after a timeout the call is made again.
claude_timeout_retries(i) ==
    /\ Suspended(i, "call_claude")
    /\ tasks' = [tasks EXCEPT ![i] = [st |-> "pending", result |-> None, proc |-> "killed"]]
    /\ UNCHANGED <<taskFrame, sem_value, sem_waiters>>

\* asyncio.TimeoutError: proc.kill()
claude_timeout(i) ==
    /\ Suspended(i, "call_claude")
    /\ tasks' = Resolve(tasks, i, TimeoutResult("Claude", CLAUDE_TIMEOUT), "killed")
    /\ UNCHANGED <<taskFrame, sem_value, sem_waiters>>

(***************************************************************************)
(* _codex_sem = asyncio.Semaphore(1), call_codex and _codex_inner          *)
(***************************************************************************)
\* Slip: the gate admits everybody.
SemNeverLocked(v, w) == FALSE

\* Semaphore.locked()
SemLocked(v, w) == v = 0 \/ w # <<>>

\* Semaphore._wake_up_next(): hand the slot to the first waiter not yet woken.
SemWakeUpNext(v, w) ==
    LET todo == {k \in DOMAIN w : ~w[k].woken}
    IN IF todo = {} THEN [value |-> v, waiters |-> w]
       ELSE LET k == CHOOSE a \in todo : \A b \in todo : a <= b
            IN [value |-> v - 1, waiters |-> [w EXCEPT ![k].woken = TRUE]]

\* Semaphore.release(), run by `async with` on every way out of the block.
SemRelease(v, w) == SemWakeUpNext(v + 1, w)

\* _codex_inner up to its first suspension, entered holding the slot
\* (value v, waiters w): the spawn fails and the slot is released, or the
\* child runs.
CodexEnter(i, spawn, v, w) ==
    IF spawn = "ok"
    THEN /\ tasks' = [tasks EXCEPT ![i] = [st |-> "external", result |-> None, proc |-> "running"]]
         /\ sem_value' = v
         /\ sem_waiters' = w
    ELSE /\ tasks' = Resolve(tasks, i, ErrorResult("Codex", spawn), "none")
         /\ sem_value' = SemRelease(v, w).value
         /\ sem_waiters' = SemRelease(v, w).waiters

\* async with _codex_sem: acquire at once, or queue up and suspend.
call_codex(i, spawn) ==
    /\ FirstPending(i)
    /\ to_call[i].fn = "call_codex"
    /\ IF ~SemLocked(sem_value, sem_waiters)
       THEN CodexEnter(i, spawn, sem_value - 1, sem_waiters)
       ELSE /\ tasks' = [tasks EXCEPT ![i].st = "waiting"]
            /\ sem_waiters' = Append(sem_waiters, [task |-> i, woken |-> FALSE])
            /\ sem_value' = sem_value
    /\ UNCHANGED taskFrame

\* A woken waiter resumes inside acquire(): it leaves the queue and enters.
codex_acquired(i, spawn) ==
    /\ pc = "gather"
    /\ AllStarted
    /\ i \in DOMAIN tasks
    /\ tasks[i].st = "waiting"
    /\ \E k \in DOMAIN sem_waiters : sem_waiters[k].task = i /\ sem_waiters[k].woken
    /\ LET NotMe(x) == x.task # i
           w1  == SelectSeq(sem_waiters, NotMe)
           nxt == IF sem_value > 0 THEN SemWakeUpNext(sem_value, w1)
                  ELSE [value |-> sem_value, waiters |-> w1]
       IN CodexEnter(i, spawn, nxt.value, nxt.waiters)
    /\ UNCHANGED taskFrame

\* Slip: the timeout path returns without releasing the slot.
CodexLeaveKeepsSlotOnKill(i, r, p) ==
    /\ tasks' = Resolve(tasks, i, r, p)
    /\ sem_value' = IF p = "killed" THEN sem_value
                     ELSE SemRelease(sem_value, sem_waiters).value
    /\ sem_waiters' = IF p = "killed" THEN sem_waiters
                       ELSE SemRelease(sem_value, sem_waiters).waiters

\* How _codex_inner leaves after its subprocess was spawned.
CodexLeave(i, r, p) ==
    /\ tasks' = Resolve(tasks, i, r, p)
    /\ sem_value' = SemRelease(sem_value, sem_waiters).value
    /\ sem_waiters' = SemRelease(sem_value, sem_waiters).waiters

\* communicate() returned within the budget.
codex_exit(i, x) ==
    /\ Suspended(i, "call_codex")
    /\ CodexLeave(i, CodexExitResult(x[1], x[2], x[3]), "exited")
    /\ UNCHANGED taskFrame

\* Slip: a call that timed out goes back to wait for the gate.
codex_timeout_requeues(i) ==
    /\ Suspended(i, "call_codex")
    /\ tasks' = [tasks EXCEPT ![i] = [st |-> "waiting", result |-> None, proc |-> "killed"]]
    /\ sem_value' = sem_value
    /\ sem_waiters' = Append(sem_waiters, [task |-> i, woken |-> TRUE])
    /\ UNCHANGED taskFrame

\* asyncio.TimeoutError: proc.kill()
codex_timeout(i) ==
    /\ Suspended(i, "call_codex")
    /\ CodexLeave(i, TimeoutResult("Codex", CODEX_TIMEOUT), "killed")
    /\ UNCHANGED taskFrame

(***************************************************************************)
(* main: after the gather.                                                 *)
(***************************************************************************)
\* gather() without return_exceptions: the exception of a coroutine is
\* raised in main, which nothing catches; asyncio.run propagates it.
GatherRaise ==
    /\ pc = "gather"
    /\ AllStarted
    /\ \E i \in DOMAIN tasks : tasks[i].st = "raised"
    /\ EndProcess("exception")
    /\ last_failed' = last_failed \cup TaskIds(to_call, WithoutArtifact(tasks))
    /\ batch_ok' = FALSE
    /\ prev' = NoPrev
    /\ UNCHANGED <<file, report, ever_stored, argv, fnVars>>

\* Slip: every result is written to the cache, failures included.
RECURSIVE MergeResultsKeepAll(_, _, _, _)
MergeResultsKeepAll(c, tc, results, i) ==
    IF i > Len(tc) THEN c
    ELSE LET result == [results[i] EXCEPT !.provider = tc[i].provider]
         IN MergeResultsKeepAll((cache_key(tc[i].pid, tc[i].m) :> result) @@ c,
                                tc, results, i + 1)

\* for (pid, m, provider, fn, _), result in zip(to_call, results): ...
RECURSIVE MergeResults(_, _, _, _)
MergeResults(c, tc, results, i) ==
    IF i > Len(tc) THEN c
    ELSE LET result == [results[i] EXCEPT !.provider = tc[i].provider]
         IN MergeResults(IF Truthy(result.svg)
                         THEN (cache_key(tc[i].pid, tc[i].m) :> result) @@ c
                         ELSE c,
                         tc, results, i + 1)

\* gather() returned every result; the merge loop.
Merge ==
    /\ pc = "gather"
    /\ \A i \in DOMAIN tasks : tasks[i].st = "done"
    /\ cache' = MergeResults(cache, to_call, [i \in DOMAIN tasks |-> tasks[i].result[1]], 1)
    /\ tasks' = <<>>
    /\ pc' = "merged"
    /\ last_failed' = last_failed \cup TaskIds(to_call, WithoutArtifact(tasks))
    /\ batch_ok' = (WithoutArtifact(tasks) = {})
    /\ UNCHANGED <<file, report, exit, env, prompt_filter, to_call, cached_count,
                   sem_value, sem_waiters, saves, store_at_load, argv, ever_stored, prev,
                   fnVars>>

\* Keys that CACHE_FILE holds with an artifact.
StoredArtifacts(f) ==
    IF f.exists /\ f.complete
    THEN {k \in DOMAIN f.doc : Truthy(json_loads(f.doc)[k].svg)}
    ELSE {}

\* Slip: the store is written as soon as one coroutine has returned.
SaveBeginDuringGather ==
    /\ pc = "gather"
    /\ \E i \in DOMAIN tasks : tasks[i].st = "done"
    /\ file' = [exists |-> TRUE, complete |-> FALSE, doc |-> EmptyDict]
    /\ pc' = "saving"
    /\ saves' = saves + 1
    /\ UNCHANGED <<report, exit, env, prompt_filter, cache, to_call, cached_count, tasks,
                   sem_value, sem_waiters, store_at_load, argv, histVars, fnVars>>

\* save_cache: write_text opens CACHE_FILE for writing, which empties it ...
SaveBegin ==
    /\ pc = "merged"
    /\ file' = [exists |-> TRUE, complete |-> FALSE, doc |-> EmptyDict]
    /\ pc' = "saving"
    /\ saves' = saves + 1
    /\ UNCHANGED <<report, exit, env, prompt_filter, cache, to_call, cached_count, tasks,
                   sem_value, sem_waiters, store_at_load, argv, histVars, fnVars>>

\* Slip: only the results of this batch are written.
SaveEndBatchOnly ==
    /\ pc = "saving"
    /\ file' = [exists |-> TRUE, complete |-> TRUE,
                doc |-> json_dumps([k \in {KeyOf(to_call[i]) : i \in DOMAIN to_call}
                                        \cap DOMAIN cache |-> cache[k]])]
    /\ pc' = "report"
    /\ ever_stored' = ever_stored \cup StoredArtifacts(file')
    /\ UNCHANGED <<report, exit, procVars, last_failed, batch_ok, prev, argv, fnVars>>

\* ... and then writes json.dumps(cache).
SaveEnd ==
    /\ pc = "saving"
    /\ file' = [exists |-> TRUE, complete |-> TRUE, doc |-> json_dumps(cache)]
    /\ pc' = "report"
    /\ ever_stored' = ever_stored \cup StoredArtifacts(file')
    /\ UNCHANGED <<report, exit, procVars, last_failed, batch_ok, prev, argv, fnVars>>

\* with open(OUT_FILE, "w") as f: f.write(build_html(cache)); main returns.
WriteReport ==
    /\ pc = "report"
    /\ report' = Some(build_html(cache))
    /\ EndProcess("exit 0")
    /\ prev' = [scope |-> active_prompts(prompt_filter), all_ok |-> batch_ok]
    /\ batch_ok' = FALSE
    /\ UNCHANGED <<file, last_failed, ever_stored, argv, fnVars>>

\* The process is terminated from outside at any point.
Kill ==
    /\ pc # "idle"
    /\ EndProcess("killed")
    /\ last_failed' = last_failed \cup TaskIds(to_call, WithoutArtifact(tasks))
    /\ batch_ok' = FALSE
    /\ prev' = NoPrev
    /\ UNCHANGED <<file, report, ever_stored, argv, fnVars>>

\* What can follow --prompt on the command line, None when it is not given.
PromptArgs == {None} \cup {Some(pid) : pid \in Range(PROMPTS) \cup {UnknownPid}}

PromptFilters == {None} \cup {Some(<<PROMPTS[i]>>) : i \in DOMAIN PROMPTS}

Next ==
    \/ \E p \in PromptArgs : RunHtmlOnly(p)
    \/ RunUnknownPrompt
    \/ \E e \in Envs, pf \in PromptFilters : MainLoad(e, pf)
    \/ BuildMatrix
    \/ Gather
    \/ NoDispatch
    \/ \E i \in DOMAIN tasks : call_gemini(i)
    \/ \E i \in DOMAIN tasks, t \in RawTexts : gemini_response(i, t)
    \/ \E i \in DOMAIN tasks, e \in ApiErrors : gemini_error(i, e)
    \/ \E i \in DOMAIN tasks, s \in {"ok"} \cup SpawnErrors : call_claude(i, s)
    \/ \E i \in DOMAIN tasks, x \in ProcExits : claude_exit(i, x)
    \/ \E i \in DOMAIN tasks : claude_timeout(i)
    \/ \E i \in DOMAIN tasks, s \in {"ok"} \cup SpawnErrors : call_codex(i, s)
    \/ \E i \in DOMAIN tasks, s \in {"ok"} \cup SpawnErrors : codex_acquired(i, s)
    \/ \E i \in DOMAIN tasks, x \in ProcExits : codex_exit(i, x)
    \/ \E i \in DOMAIN tasks : codex_timeout(i)
    \/ GatherRaise
    \/ Merge
    \/ SaveBegin
    \/ SaveEnd
    \/ WriteReport

Spec == Init /\ [][Next]_vars

\* The same program on a machine where the process can be terminated.
NextCrash == Next \/ Kill

SpecCrash == Init /\ [][NextCrash]_vars

(***************************************************************************)
(* The same program started on a store that earlier versions have written. *)
(***************************************************************************)
\* svg_cache.json left by an earlier version: an entry of a prompt that is
\* no longer in the catalogue, an entry of the catalogue and an entry
\* without an artifact, each with a field today's Results do not have.
LegacyDoc ==
    (cache_key("dragon", "gpt-4") :>
        [provider |-> <<"str", "OpenAI">>, svg |-> <<"str", "<svg>D</svg>">>,
         error |-> <<"null">>, elapsed |-> <<"str", "12s">>])
    @@ (cache_key(PROMPTS[1], CLAUDE_MODELS[1]) :>
        [provider |-> <<"str", "Claude">>, svg |-> <<"str", "<svg>old</svg>">>,
         error |-> <<"null">>, elapsed |-> <<"null">>])
    @@ (cache_key(PROMPTS[2], GEMINI_MODELS[1]) :>
        [provider |-> <<"str", "Gemini">>, svg |-> <<"null">>,
         error |-> <<"str", "quota">>, elapsed |-> <<"null">>])

LegacyFile == [exists |-> TRUE, complete |-> TRUE, doc |-> LegacyDoc]

InitLegacy ==
    /\ file = LegacyFile
    /\ Init!2 /\ Init!3 /\ Init!4 /\ Init!5 /\ Init!6 /\ Init!7 /\ Init!8 /\ Init!9
    /\ Init!10 /\ Init!11 /\ Init!12 /\ Init!13
    /\ ever_stored = StoredArtifacts(LegacyFile)
    /\ Init!15 /\ Init!16 /\ Init!17 /\ Init!18 /\ Init!19 /\ Init!20 /\ Init!21

SpecLegacy == InitLegacy /\ [][Next]_vars

(***************************************************************************)
(* cache_key applied to two pairs of identifiers.                          *)
(***************************************************************************)
MaxIdLen == 2

IdChars == {"a", ":"}

RECURSIVE Ids(_)
Ids(n) == IF n = 0 THEN {""} ELSE Ids(n - 1) \cup {s \o c : s \in Ids(n - 1), c \in IdChars}

InitKey ==
    /\ Init!1 /\ Init!2 /\ Init!3 /\ Init!4 /\ Init!5 /\ Init!6 /\ Init!7 /\ Init!8
    /\ Init!9 /\ Init!10 /\ Init!11 /\ Init!12 /\ Init!13 /\ Init!14 /\ Init!15 /\ Init!16
    /\ Init!19 /\ Init!20 /\ Init!21
    /\ fn_in \in {[p1 |-> a, m1 |-> b, p2 |-> c, m2 |-> d] :
                    a \in Ids(MaxIdLen), b \in Ids(MaxIdLen), c \in Ids(MaxIdLen), d \in Ids(MaxIdLen)}
    /\ fn_out = None

ApplyCacheKey ==
    /\ fn_out = None
    /\ fn_out' = Some(<<cache_key(fn_in.p1, fn_in.m1), cache_key(fn_in.p2, fn_in.m2)>>)
    /\ UNCHANGED <<file, report, pc, exit, procVars, histVars, argv, fn_in>>

NextKey == ApplyCacheKey

SpecKey == InitKey /\ [][NextKey]_vars

(***************************************************************************)
(* extract_svg applied to a raw text.                                      *)
(***************************************************************************)
MaxTokens == 3

ExtractTokens == {"n ", "<svg>", "<SVG w>", "</svg>", "</SVG>", "A\n"}

RECURSIVE Texts(_)
Texts(n) ==
    IF n = 0 THEN {""} ELSE Texts(n - 1) \cup {s \o t : s \in Texts(n - 1), t \in ExtractTokens}

ExampleText == "noise <svg>A</svg> more noise <svg>B</svg>"

InitExtract ==
    /\ Init!1 /\ Init!2 /\ Init!3 /\ Init!4 /\ Init!5 /\ Init!6 /\ Init!7 /\ Init!8
    /\ Init!9 /\ Init!10 /\ Init!11 /\ Init!12 /\ Init!13 /\ Init!14 /\ Init!15 /\ Init!16
    /\ Init!19 /\ Init!20 /\ Init!21
    /\ fn_in \in Texts(MaxTokens) \cup {ExampleText}
    /\ fn_out = None

ApplyExtractSvg ==
    /\ fn_out = None
    /\ fn_out' = Some(extract_svg(fn_in))
    /\ UNCHANGED <<file, report, pc, exit, procVars, histVars, argv, fn_in>>

NextExtract == ApplyExtractSvg

SpecExtract == InitExtract /\ [][NextExtract]_vars

(***************************************************************************)
(* An adapter from the return of its external call to its Result, and the  *)
(* merge of that Result by main.                                           *)
(***************************************************************************)
AdapterFns == {"call_gemini", "call_claude", "call_codex"}

ProviderOf(fn) ==
    CASE fn = "call_gemini" -> "Gemini" [] fn = "call_claude" -> "Claude" [] fn = "call_codex" -> "Codex"

\* response.text, or the stdout of the subprocess.
OutTexts == {"", " \n", "I cannot draw.", "x <svg>A</svg> y", "<svg>"}

\* The stderr of the subprocess.
ErrTexts == {"", "\n", "boom\n"}

\* proc.returncode; negative when a signal ended the subprocess.
ReturnCodes == {0, 1, -9}

\* str(e) of a caught exception; an exception built without arguments has "".
ExcTexts == {"", "[Errno 2] No such file or directory"}

\* str(ProcessLookupError()), raised by proc.kill() when the subprocess has
\* exited between the timeout and the kill.
ProcessLookupErrorText == ""

Outcome(kind, rc, stdout, stderr, msg, kill) ==
    [kind |-> kind, rc |-> rc, stdout |-> stdout, stderr |-> stderr, msg |-> msg, kill |-> kill]

\* How the awaited call of adapter fn can come back.
AdapterOutcomes(fn) ==
    IF fn = "call_gemini"
    THEN {Outcome("response", 0, t, "", "", "none") : t \in OutTexts}
         \cup {Outcome("raise", 0, "", "", e, "none") : e \in ExcTexts}
    ELSE {Outcome("exit", rc, t, e, "", "none") : rc \in ReturnCodes, t \in OutTexts, e \in ErrTexts}
         \cup {Outcome("raise", 0, "", "", e, "none") : e \in ExcTexts}
         \cup {Outcome("timeout", 0, "", "", "", k) : k \in {"ok", "raise"}}

\* The Result adapter fn returns when its call came back with o.
AdapterResult(fn, o) ==
    CASE o.kind = "response" -> ExtractResult(ProviderOf(fn), o.stdout)
      [] o.kind = "raise" -> ErrorResult(ProviderOf(fn), o.msg)
      [] o.kind = "timeout" ->
            IF o.kill = "ok" THEN TimeoutResult(ProviderOf(fn), TimeoutOf(fn))
            ELSE ErrorResult(ProviderOf(fn), ProcessLookupErrorText)
      [] o.kind = "exit" ->
            IF fn = "call_claude" THEN ClaudeExitResult(o.rc, o.stdout, o.stderr)
            ELSE CodexExitResult(o.rc, o.stdout, o.stderr)

\* The to_call entry of the first prompt for adapter fn.
TaskOf(fn) ==
    LET ts == AllPairs(<<PROMPTS[1]>>)
    IN ts[CHOOSE i \in DOMAIN ts : ts[i].fn = fn]

InitAdapters ==
    /\ Init!1 /\ Init!2 /\ Init!3 /\ Init!4 /\ Init!5 /\ Init!6 /\ Init!7 /\ Init!8
    /\ Init!9 /\ Init!10 /\ Init!11 /\ Init!12 /\ Init!13 /\ Init!14 /\ Init!15 /\ Init!16
    /\ Init!19 /\ Init!20 /\ Init!21
    /\ fn_in \in {[fn |-> fn, outcome |-> o] : fn \in AdapterFns, o \in UNION {AdapterOutcomes(g) : g \in AdapterFns}}
    /\ fn_in.outcome \in AdapterOutcomes(fn_in.fn)
    /\ fn_out = None

\* The adapter returns its Result and main merges it into an empty cache.
ApplyAdapter ==
    /\ fn_out = None
    /\ LET result == AdapterResult(fn_in.fn, fn_in.outcome)
       IN fn_out' = Some([result |-> result,
                          cache  |-> MergeResults(EmptyDict, <<TaskOf(fn_in.fn)>>, <<result>>, 1)])
    /\ UNCHANGED <<file, report, pc, exit, procVars, histVars, argv, fn_in>>

NextAdapters == ApplyAdapter

SpecAdapters == InitAdapters /\ [][NextAdapters]_vars

(***************************************************************************)
(* asyncio.gather and main's merge loop on their own: the coroutines of a  *)
(* batch return in any order, each with a Result that names its task.      *)
(***************************************************************************)
\* The batch: every pair of the first prompt, nothing cached.
PairingTasks == BuildToCall(EmptyDict, <<PROMPTS[1]>>)

\* What the backend answers to fn(m, pt): a drawing made for that call.
TaggedText(t) == "<svg>" \o t.m \o " draws " \o t.pid \o "</svg>"

\* The Result the coroutine of task t returns: an artifact or a failure.
TaggedResult(t, ok) ==
    IF ok THEN ExtractResult(t.provider, TaggedText(t))
    ELSE ErrorResult(t.provider, "no " \o t.m)

\* Slip: the results come in the order in which the coroutines returned.
gather_as_completed(done) == [k \in DOMAIN done |-> done[k].result]

\* results = await asyncio.gather(*tasks): the result of the i-th awaitable
\* is the i-th element, whenever it returned.
gather_results(done) ==
    [i \in DOMAIN done |-> done[CHOOSE k \in DOMAIN done : done[k].task = i].result]

InitPairing ==
    /\ Init!1 /\ Init!2 /\ Init!3 /\ Init!4 /\ Init!5 /\ Init!6 /\ Init!7 /\ Init!8
    /\ Init!9 /\ Init!10 /\ Init!11 /\ Init!12 /\ Init!13 /\ Init!14 /\ Init!15 /\ Init!16
    /\ Init!19 /\ Init!20 /\ Init!21
    /\ fn_in = <<>>
    /\ fn_out = None

\* The coroutine of task i returns.
CoroutineReturns(i, ok) ==
    /\ fn_out = None
    /\ \A k \in DOMAIN fn_in : fn_in[k].task # i
    /\ fn_in' = Append(fn_in, [task |-> i, result |-> TaggedResult(PairingTasks[i], ok)])
    /\ UNCHANGED <<file, report, pc, exit, procVars, histVars, argv, fn_out>>

\* gather returns the list of results and main merges it.
ApplyGatherMerge ==
    /\ fn_out = None
    /\ Len(fn_in) = Len(PairingTasks)
    /\ fn_out' = Some(MergeResults(EmptyDict, PairingTasks, gather_results(fn_in), 1))
    /\ UNCHANGED <<file, report, pc, exit, procVars, histVars, argv, fn_in>>

NextPairing ==
    \/ \E i \in DOMAIN PairingTasks : \E ok \in BOOLEAN : CoroutineReturns(i, ok)
    \/ ApplyGatherMerge

SpecPairing == InitPairing /\ [][NextPairing]_vars

(***************************************************************************)
(* One batch from the gather to the end of main, under the scheduling of   *)
(* the event loop.  The roster of the source has two Codex models, so a    *)
(* batch has several call_codex coroutines.                                *)
(***************************************************************************)
MaxCodex == 3

\* CODEX_MODELS of the source.
LiveCodexModels == <<"gpt-5.3-codex", "gpt-5.2-codex">>

\* The to_call entry of (pid, r).
LiveTask(pid, r) ==
    [pid |-> pid, m |-> r.m, provider |-> r.provider, fn |-> r.fn, pt |-> PROMPT_TEXT(pid)]

\* The first n Codex tasks of the matrix, prompt-major.
LiveCodexTasks(n) ==
    LET roster == RosterOf(LiveCodexModels, "Codex", "call_codex")
        k == Len(roster)
    IN [j \in 1..n |-> LiveTask(PROMPTS[((j - 1) \div k) + 1], roster[((j - 1) % k) + 1])]

\* A Gemini task followed by n Codex tasks, and a batch of all families.
LiveBatches ==
    {<<LiveTask(PROMPTS[1], ALL_MODELS_ORDERED[1])>> \o LiveCodexTasks(n) : n \in 1..MaxCodex}
    \cup {AllPairs(<<PROMPTS[1]>>)}

\* main has loaded an empty cache and built to_call.
InitLive ==
    /\ Init!1 /\ Init!2
    /\ pc = "built"
    /\ exit = "running"
    /\ env \in Envs
    /\ Init!6 /\ Init!7
    /\ to_call \in LiveBatches
    /\ Init!9 /\ Init!10 /\ Init!11 /\ Init!12 /\ Init!13 /\ Init!14 /\ Init!15 /\ Init!16
    /\ Init!17 /\ Init!18 /\ Init!19 /\ Init!20 /\ Init!21

\* What the event loop runs as soon as it can: main and the coroutines up
\* to their next suspension.
EventLoopStep ==
    \/ Gather
    \/ \E i \in DOMAIN tasks : call_gemini(i)
    \/ \E i \in DOMAIN tasks, s \in {"ok"} \cup SpawnErrors : call_claude(i, s)
    \/ \E i \in DOMAIN tasks, s \in {"ok"} \cup SpawnErrors : call_codex(i, s)
    \/ \E i \in DOMAIN tasks, s \in {"ok"} \cup SpawnErrors : codex_acquired(i, s)
    \/ GatherRaise
    \/ Merge
    \/ SaveBegin
    \/ SaveEnd
    \/ WriteReport

\* wait_for(proc.communicate(), timeout=...): the subprocess ends or the
\* timer fires.
SubprocessEnds ==
    \/ \E i \in DOMAIN tasks, x \in ProcExits : claude_exit(i, x)
    \/ \E i \in DOMAIN tasks : claude_timeout(i)
    \/ \E i \in DOMAIN tasks, x \in ProcExits : codex_exit(i, x)
    \/ \E i \in DOMAIN tasks : codex_timeout(i)

\* await client.aio.models.generate_content(...): no timeout of its own.
GeminiReturns ==
    \/ \E i \in DOMAIN tasks, t \in RawTexts : gemini_response(i, t)
    \/ \E i \in DOMAIN tasks, e \in ApiErrors : gemini_error(i, e)

NextLive == EventLoopStep \/ SubprocessEnds \/ GeminiReturns

\* The event loop keeps running and every guarded subprocess call ends;
\* nothing makes the remote API answer.
SpecLive ==
    InitLive /\ [][NextLive]_vars /\ WF_vars(EventLoopStep) /\ WF_vars(SubprocessEnds)

\* The same, and every remote-API call returns or raises.
SpecLiveApi ==
    InitLive /\ [][NextLive]_vars /\ WF_vars(EventLoopStep) /\ WF_vars(SubprocessEnds)
    /\ WF_vars(GeminiReturns)

(***************************************************************************)
(* Properties.                                                             *)
(***************************************************************************)
IsFailure(r) == r.svg = None /\ r.error # None

\* C1: whatever goes wrong in an adapter invocation, the coroutine returns a
\* Result; none of the coroutines handed to gather ends by raising.
C1_AdaptersNeverRaise == \A i \in DOMAIN tasks : tasks[i].st # "raised"

\* C2: a batch is never aborted: main leaves the gather only into the merge,
\* where every Result with an artifact is written to the cache, and the merge
\* is followed by save_cache, which persists the cache.
C2_BatchNeverAborted ==
    [][ /\ (pc = "gather" /\ pc' # "gather") =>
              /\ pc' = "merged"
              /\ \A i \in DOMAIN tasks :
                    (tasks[i].st = "done" /\ Truthy(tasks[i].result[1].svg))
                        => KeyOf(to_call[i]) \in DOMAIN cache'
        /\ (pc = "merged" /\ pc' # "merged") => pc' = "saving"
        /\ (pc = "saving" /\ pc' # "saving") =>
              /\ pc' = "report"
              /\ StoredArtifacts(file') = DOMAIN cache ]_vars

\* C3: without an API key in the environment a started call_gemini has
\* returned a failure Result (svg absent, error present), and the process
\* does not end by an exception.
C3_NoKeyIsFailureResult ==
    /\ exit # "exception"
    /\ \A i \in DOMAIN tasks :
          (to_call[i].fn = "call_gemini" /\ tasks[i].st # "pending" /\ ApiKey(env) = "")
              => (tasks[i].st = "done" /\ IsFailure(tasks[i].result[1]))

\* C4: the merge writes a task's Result at cache_key(prompt_id, model) if and
\* only if its svg is present, and no entry without an artifact is ever in
\* the in-memory cache or in the persisted store.
C4_MergeIffArtifact ==
    [][ /\ (pc = "gather" /\ pc' = "merged") =>
              \A i \in DOMAIN tasks :
                  LET r == tasks[i].result[1]
                      k == KeyOf(to_call[i])
                  IN /\ Truthy(r.svg) <=> k \in DOMAIN cache'
                     /\ Truthy(r.svg) => cache'[k] = [r EXCEPT !.provider = to_call[i].provider]
        /\ \A k \in DOMAIN cache' : Truthy(cache'[k].svg)
        /\ file'.complete => \A k \in DOMAIN file'.doc : Truthy(json_loads(file'.doc)[k].svg) ]_vars

\* C4 happens: a merge kept one Result of the batch and discarded another.
C4_Witness ==
    /\ pc = "merged"
    /\ \E i, j \in DOMAIN to_call :
          KeyOf(to_call[i]) \in DOMAIN cache /\ KeyOf(to_call[j]) \notin DOMAIN cache

\* C5: when the task matrix of a run is built, every task of the scope that
\* was dispatched before and has not returned an artifact since is in to_call.
C5_RetryOnFailure ==
    pc = "built" =>
        \A t \in last_failed :
            t[1] \in Range(active_prompts(prompt_filter))
                => \E i \in DOMAIN to_call : to_call[i].pid = t[1] /\ to_call[i].m = t[2]

\* C5 happens: a matrix was built for a scope that holds a task that failed
\* in an earlier run, while another task of the scope is cached.
C5_Witness ==
    /\ pc = "built"
    /\ cached_count > 0
    /\ \E t \in last_failed : t[1] \in Range(active_prompts(prompt_filter))

\* C6: no coroutine is ever created for a task whose key the persisted store
\* has held with an artifact.
C6_NoRetryOnSuccess == \A i \in DOMAIN tasks : KeyOf(to_call[i]) \notin ever_stored

\* C6 happens: a batch is in flight in a scope of which a task is stored.
C6_Witness ==
    /\ pc = "gather"
    /\ \E i \in DOMAIN tasks : tasks[i].st = "external"
    /\ \E k \in DOMAIN AllPairs(active_prompts(prompt_filter)) :
          KeyOf(AllPairs(active_prompts(prompt_filter))[k]) \in ever_stored

\* C7: in the run that follows a completed run over the same scope in which
\* every task yielded an artifact, nothing is dispatched and neither the
\* store nor the cache mapping changes.
C7_Idempotent ==
    [][ (pc # "idle" /\ prev.all_ok /\ prev.scope = active_prompts(prompt_filter)) =>
            /\ pc' # "gather"
            /\ file' = file
            /\ pc' # "idle" => cache' = cache ]_vars

\* C7 happens: the second run reached its report step with the whole scope
\* cached by a first run that had dispatched tasks.
C7_Witness ==
    /\ pc = "report"
    /\ prev.all_ok
    /\ prev.scope = active_prompts(prompt_filter)
    /\ to_call = <<>>
    /\ cached_count = Len(AllPairs(prev.scope))
    /\ cached_count > 0

\* C8: distinct (prompt id, model id) pairs have distinct cache keys.
C8_KeyInjective ==
    fn_out # None =>
        (<<fn_in.p1, fn_in.m1>> # <<fn_in.p2, fn_in.m2>> => fn_out[1][1] # fn_out[1][2])

IsCodex(i) == to_call[i].fn = "call_codex"

\* C9: at most one call_codex is inside its external call; call_gemini and
\* call_claude never wait for the gate: once the coroutines have taken their
\* first step each of them is in its external call or has ended.
C9_ConcurrencyIsolation ==
    /\ Cardinality({i \in DOMAIN tasks : IsCodex(i) /\ tasks[i].st = "external"}) <= 1
    /\ \A i \in DOMAIN tasks :
          ~IsCodex(i) =>
              /\ tasks[i].st # "waiting"
              /\ \A k \in DOMAIN sem_waiters : sem_waiters[k].task # i
              /\ AllStarted => tasks[i].st \in {"external", "done", "raised"}

\* C9 happens: a codex call executes, another waits for the gate, and a
\* gemini and a claude call are in their external calls at the same time.
C9_Witness ==
    \E a, b, g, c \in DOMAIN tasks :
        /\ IsCodex(a) /\ tasks[a].st = "external"
        /\ IsCodex(b) /\ tasks[b].st = "waiting"
        /\ to_call[g].fn = "call_gemini" /\ tasks[g].st = "external"
        /\ to_call[c].fn = "call_claude" /\ tasks[c].st = "external"

\* The call_codex invocations that hold the slot: admitted and not yet out.
Holders ==
    {i \in DOMAIN tasks :
        /\ IsCodex(i)
        /\ \/ tasks[i].st = "external"
           \/ \E k \in DOMAIN sem_waiters : sem_waiters[k].task = i /\ sem_waiters[k].woken}

\* C10: the slot is held by nobody or by one invocation, and it is free
\* exactly when nobody holds it: every ended call_codex has given it back.
C10_GateReleased ==
    /\ sem_value \in {0, 1}
    /\ Cardinality(Holders) \in {0, 1}
    /\ sem_value + Cardinality(Holders) = 1

\* C10 happens: a call_codex ended by timeout and the one that waited behind
\* it is now in its external call, holding the slot.
C10_Witness ==
    \E a, b \in DOMAIN tasks :
        /\ IsCodex(a) /\ tasks[a].st = "done" /\ tasks[a].proc = "killed"
        /\ IsCodex(b) /\ tasks[b].st = "external"

\* C11: an invocation of call_claude or call_codex whose subprocess runs
\* ends only by resolving to a Result, and then the subprocess runs no more:
\* it has exited by itself, or it did not and was killed, and in that case
\* the Result is the failure "Timed out after Ns" with N the budget of the
\* family; the invocation is never given up unresolved.
C11_TimeoutEnforced ==
    [][ \A i \in DOMAIN tasks :
          tasks[i].proc = "running" =>
              /\ i \in DOMAIN tasks'
              /\ \/ tasks'[i] = tasks[i]
                 \/ /\ tasks'[i].st = "done"
                    /\ tasks'[i].proc \in {"exited", "killed"}
                    /\ tasks'[i].proc = "killed" =>
                          tasks'[i].result[1] =
                              TimeoutResult(to_call[i].provider, TimeoutOf(to_call[i].fn)) ]_vars

\* C12: main leaves the gather for the merge only when every entry of
\* to_call has a coroutine that has returned its Result, and every step that
\* calls save_cache or changes the store is taken after the merge, with no
\* coroutine of the batch left.
C12_SaveAfterAllResolved ==
    [][ /\ (pc = "gather" /\ pc' = "merged") =>
              /\ DOMAIN tasks = DOMAIN to_call
              /\ \A i \in DOMAIN tasks : tasks[i].st = "done"
        /\ (saves' > saves \/ file' # file) =>
              /\ pc \in {"merged", "saving"}
              /\ tasks = <<>> ]_vars

\* C12 happens: the store is being written for a batch of several tasks, of
\* which one returned an artifact and another failed.
C12_Witness ==
    /\ pc = "saving"
    /\ file.exists /\ ~file.complete
    /\ Len(to_call) >= 2
    /\ \E i, j \in DOMAIN to_call :
          KeyOf(to_call[i]) \in DOMAIN cache /\ KeyOf(to_call[j]) \notin DOMAIN cache

\* main has dispatched the tasks of a non-empty to_call.
Dispatched == pc \in {"gather", "merged", "saving", "report"} /\ to_call # <<>>

\* C13: a process calls save_cache at most once, and a run of main that
\* dispatched at least one task ends having called it exactly once.
C13_SavedOncePerBatch ==
    [][ /\ saves' <= 1
        /\ (Dispatched /\ pc' = "idle") => saves = 1 ]_vars

\* C14: every run of main ends by writing the report built from the cache
\* it holds at that point.
C14_ReportAlwaysWritten ==
    [][ (pc # "idle" /\ pc' = "idle") => report' = Some(build_html(cache)) ]_vars

\* C15: whenever no process runs, also after one was terminated inside
\* save_cache, load_cache succeeds and returns an entry for every key that
\* the store has held with an artifact.
C15_AtomicSave ==
    pc = "idle" =>
        \A k \in ever_stored :
            /\ load_cache(file)[1] = "ok"
            /\ k \in DOMAIN load_cache(file)[2]

\* C16: when save_cache has completed, load_cache of the store returns the
\* mapping that was saved, which holds an artifact for every task of the
\* batch that returned one; the end of the process leaves the store as it
\* is, and the next run of main loads exactly what the store holds.
C16_SavedIsLoaded ==
    [][ /\ (pc = "saving" /\ pc' = "report") =>
              /\ load_cache(file') = <<"ok", cache>>
              /\ \A i \in DOMAIN to_call :
                    <<to_call[i].pid, to_call[i].m>> \notin last_failed =>
                        /\ KeyOf(to_call[i]) \in DOMAIN load_cache(file')[2]
                        /\ Truthy(load_cache(file')[2][KeyOf(to_call[i])].svg)
        /\ (pc' = "idle" /\ file.complete) => file' = file
        /\ (pc = "idle" /\ pc' = "loaded") => load_cache(file) = <<"ok", cache'>> ]_vars

\* C16 happens: a run has loaded artifacts although no report was ever
\* written: the process that saved them was terminated before its report.
C16_Witness ==
    /\ pc = "loaded"
    /\ report = None
    /\ \E k \in DOMAIN cache : Truthy(cache[k].svg)

\* C17: while CACHE_FILE does not exist load_cache returns the empty mapping
\* and no start of the program ends by an exception; a run of main then
\* starts with an empty cache and puts every pair of its scope in to_call.
C17_MissingStoreIsEmpty ==
    [][ ~file.exists =>
          /\ load_cache(file) = <<"ok", EmptyDict>>
          /\ pc = "idle" => exit' # "exception"
          /\ (pc = "idle" /\ pc' = "loaded") => cache' = EmptyDict
          /\ (pc = "loaded" /\ pc' = "built") =>
                /\ to_call' = AllPairs(active_prompts(prompt_filter))
                /\ cached_count' = 0 ]_vars

\* C17 happens: a first run over the whole catalogue has built its matrix.
C17_Witness ==
    /\ pc = "built"
    /\ ~file.exists
    /\ prompt_filter = None
    /\ Len(to_call) = Len(PROMPTS) * Len(ALL_MODELS_ORDERED)
    /\ cached_count = 0

\* Position of the prompt pid in the scope, of the model m in the roster.
ScopeIndex(active, pid) == CHOOSE p \in DOMAIN active : active[p] = pid

RosterIndex(m) == CHOOSE r \in DOMAIN ALL_MODELS_ORDERED : ALL_MODELS_ORDERED[r].m = m

\* Rank of a family in the roster order Gemini, Claude, Codex.
FamilyRank(provider) ==
    CASE provider = "Gemini" -> 1 [] provider = "Claude" -> 2 [] provider = "Codex" -> 3

\* C18: the built to_call holds only pairs of the scope whose key is not in
\* the cache, holds each such pair exactly once with the provider, adapter
\* and prompt text of its roster entry, and is ordered prompt-major: prompts
\* in scope order, models in roster order, families Gemini, Claude, Codex;
\* it is the value of one function of the scope and the cache.
C18_TaskMatrix ==
    pc = "built" =>
        LET active == active_prompts(prompt_filter)
        IN /\ \A i \in DOMAIN to_call :
                 /\ \E p \in DOMAIN active : active[p] = to_call[i].pid
                 /\ \E r \in DOMAIN ALL_MODELS_ORDERED :
                       /\ ALL_MODELS_ORDERED[r].m = to_call[i].m
                       /\ ALL_MODELS_ORDERED[r].provider = to_call[i].provider
                       /\ ALL_MODELS_ORDERED[r].fn = to_call[i].fn
                 /\ to_call[i].pt = PROMPT_TEXT(to_call[i].pid)
                 /\ cache_key(to_call[i].pid, to_call[i].m) \notin DOMAIN cache
           /\ \A p \in DOMAIN active, r \in DOMAIN ALL_MODELS_ORDERED :
                 Cardinality({i \in DOMAIN to_call :
                                 /\ to_call[i].pid = active[p]
                                 /\ to_call[i].m = ALL_MODELS_ORDERED[r].m})
                     = IF cache_key(active[p], ALL_MODELS_ORDERED[r].m) \in DOMAIN cache
                       THEN 0 ELSE 1
           /\ \A i, j \in DOMAIN to_call :
                 i < j =>
                     \/ ScopeIndex(active, to_call[i].pid) < ScopeIndex(active, to_call[j].pid)
                     \/ /\ to_call[i].pid = to_call[j].pid
                        /\ RosterIndex(to_call[i].m) < RosterIndex(to_call[j].m)
                        /\ FamilyRank(to_call[i].provider) <= FamilyRank(to_call[j].provider)
           /\ to_call = BuildToCall(cache, active)

\* C18 happens: a matrix over the whole catalogue was built from a cache that
\* holds some of its pairs, and tasks of both prompts are left to call.
C18_Witness ==
    /\ pc = "built"
    /\ prompt_filter = None
    /\ cached_count > 0
    /\ \E i, j \in DOMAIN to_call : to_call[i].pid # to_call[j].pid

\* C19: cached_count is the number of pairs of the scope whose key is in
\* the cache, none of these pairs is in to_call, and cached_count plus the
\* length of to_call is the number of prompts in scope times the number of
\* models in the roster.
C19_CachedCount ==
    pc = "built" =>
        LET active == active_prompts(prompt_filter)
            InCache == {<<p, r>> \in (DOMAIN active) \X (DOMAIN ALL_MODELS_ORDERED) :
                           cache_key(active[p], ALL_MODELS_ORDERED[r].m) \in DOMAIN cache}
        IN /\ cached_count = Cardinality(InCache)
           /\ \A i \in DOMAIN to_call :
                 \A x \in InCache :
                     <<to_call[i].pid, to_call[i].m>> # <<active[x[1]], ALL_MODELS_ORDERED[x[2]].m>>
           /\ cached_count + Len(to_call) = Len(active) * Len(ALL_MODELS_ORDERED)

\* C19 happens: a matrix was built for one prompt of which a pair is cached
\* and another is not, while the cache also holds a pair of another prompt.
C19_Witness ==
    /\ pc = "built"
    /\ prompt_filter # None
    /\ cached_count > 0
    /\ to_call # <<>>
    /\ Cardinality(DOMAIN cache) > cached_count

\* Positions of text where "<svg" and where "</svg>" start, case ignored.
Opens(text) == {i \in 1..Len(text) : MatchAt(text, i, "<svg")}

Closes(text) == {j \in 1..Len(text) : MatchAt(text, j, "</svg>")}

\* C20: extract_svg returns "" when no "<svg" of the text is followed by a
\* "</svg>"; otherwise it returns the substring from the first such "<svg"
\* to the end of the nearest "</svg>" after it; from the text
\* noise <svg>A</svg> more noise <svg>B</svg> it returns <svg>A</svg>.
C20_ExtractFirstShortest ==
    fn_out # None =>
        LET text == fn_in
            out == fn_out[1]
            usable == {i \in Opens(text) : \E j \in Closes(text) : j >= i + 4}
        IN /\ usable = {} => out = ""
           /\ usable # {} =>
                 \E i \in usable, j \in Closes(text) :
                     /\ j >= i + 4
                     /\ \A a \in usable : i <= a
                     /\ \A b \in Closes(text) : b >= i + 4 => j <= b
                     /\ out = SubSeq(text, i, j + 5)
           /\ text = ExampleText => out = "<svg>A</svg>"

\* C20 happens: extract_svg was applied to the text with two drawings.
C20_Witness ==
    /\ fn_in = ExampleText
    /\ fn_out = Some("<svg>A</svg>")

\* The call came back as a success of the backend: a response, or exit code 0.
NominalSuccess(o) == o.kind = "response" \/ (o.kind = "exit" /\ o.rc = 0)

\* C21: when the call of an adapter nominally succeeds and its output holds
\* no SVG, the adapter returns a Result with svg absent and the error
\* "No SVG found in response", and the merge does not put it in the cache.
C21_MissingArtifactFails ==
    fn_out # None =>
        ((NominalSuccess(fn_in.outcome) /\ extract_svg(fn_in.outcome.stdout) = "") =>
            /\ fn_out[1].result.svg = None
            /\ fn_out[1].result.error = Some("No SVG found in response")
            /\ fn_out[1].cache = EmptyDict)

\* C21 happens: codex exited with code 0 and printed a refusal.
C21_Witness ==
    /\ fn_out # None
    /\ fn_in.fn = "call_codex"
    /\ fn_in.outcome.kind = "exit" /\ fn_in.outcome.rc = 0
    /\ fn_in.outcome.stdout = "I cannot draw."

\* C22: every Result an adapter returns has exactly one of svg and error:
\* either a non-empty svg and no error, or no svg and a non-empty error.
C22_ExactlyOneOfSvgAndError ==
    fn_out # None =>
        LET r == fn_out[1].result
        IN \/ Truthy(r.svg) /\ r.error = None
           \/ r.svg = None /\ Truthy(r.error)

\* A process is being started with --prompt followed by an unknown id.
StartsWithUnknownPrompt == pc = "idle" /\ argv'.prompt = Some(UnknownPid)

\* C23: a process started with --prompt and an unknown prompt id ends at
\* once with exit status 1: main is not entered, no coroutine is created and
\* neither the store nor the report is written.
C23_UnknownPromptFailsFast ==
    [][ StartsWithUnknownPrompt =>
            /\ exit' = "exit 1"
            /\ pc' = "idle"
            /\ tasks' = <<>>
            /\ file' = file
            /\ report' = report ]_vars

\* C24: a process started with --html-only creates no coroutine, never
\* calls save_cache, leaves the store as it is and, when it ends well, has
\* written the report built from load_cache() alone; under --prompt p every
\* entry of to_call is a task of p and the coroutines are those of to_call.
C24_ModesRestrictDispatch ==
    [][ /\ (pc = "idle" /\ argv'.html_only) =>
              /\ pc' = "idle"
              /\ tasks' = <<>>
              /\ saves' = 0
              /\ file' = file
              /\ exit' = "exit 0" => report' = Some(build_html(load_cache(file)[2]))
        /\ prompt_filter' # None =>
              /\ argv'.prompt = Some(prompt_filter'[1][1])
              /\ \A i \in DOMAIN to_call' : to_call'[i].pid = prompt_filter'[1][1]
        /\ pc' = "gather" => DOMAIN tasks' = DOMAIN to_call' ]_vars

\* C24 happens: a batch of one prompt is in flight while pairs of another
\* prompt are not in the cache, after an --html-only process wrote a report.
C24_Witness ==
    /\ pc = "gather"
    /\ prompt_filter # None
    /\ report # None
    /\ \E i \in DOMAIN tasks : tasks[i].st = "external"
    /\ \E p \in DOMAIN PROMPTS, r \in DOMAIN ALL_MODELS_ORDERED :
          /\ PROMPTS[p] # prompt_filter[1][1]
          /\ cache_key(PROMPTS[p], ALL_MODELS_ORDERED[r].m) \notin DOMAIN cache

\* The rendered page rep holds a card of model m in the panel of prompt pid.
ReportHasCard(rep, pid, m) ==
    \E g \in DOMAIN PROMPT_GROUPS, x \in DOMAIN rep :
        /\ rep[x].gid = PROMPT_GROUPS[g].sp
        /\ \/ PROMPT_GROUPS[g].sp = pid /\ \E k \in DOMAIN rep[x].static : rep[x].static[k].model = m
           \/ PROMPT_GROUPS[g].ap = pid /\ \E k \in DOMAIN rep[x].anim : rep[x].anim[k].model = m

\* C25: the report main writes holds a card for every task of the batch
\* that failed (its key is not in the cache after the merge).
C25_FailedTaskHasCard ==
    [][ (pc = "report" /\ pc' = "idle") =>
            \A i \in DOMAIN to_call :
                KeyOf(to_call[i]) \notin DOMAIN cache =>
                    ReportHasCard(report'[1], to_call[i].pid, to_call[i].m) ]_vars

\* Every entry of the document old is in the document new, unchanged.
Retains(new, old) == \A k \in DOMAIN old : k \in DOMAIN new /\ new[k] = old[k]

\* C26: from load_cache on, the in-memory cache holds every entry the store
\* had when it was loaded, unchanged, and so does the store whenever it has
\* been written out and when the run ends; entries are only added.
C26_EntriesRetained ==
    [][ pc # "idle" =>
            /\ Retains(json_dumps(cache), store_at_load.doc)
            /\ pc' # "idle" => Retains(cache', cache)
            /\ file'.complete => Retains(file'.doc, store_at_load.doc)
            /\ pc' = "idle" => file'.complete \/ ~store_at_load.exists ]_vars

\* C26 happens: a run has saved a batch on top of a store that holds an
\* entry of an unknown prompt and an entry with a field of an earlier schema.
C26_Witness ==
    /\ pc = "report"
    /\ saves = 1
    /\ cache_key("dragon", "gpt-4") \in DOMAIN store_at_load.doc
    /\ Cardinality(DOMAIN file.doc) > Cardinality(DOMAIN store_at_load.doc)

\* C27: main creates one coroutine per entry of to_call and the entries have
\* distinct keys; a coroutine that has been started is never started again,
\* one that has ended stays as it ended, and a subprocess is started only
\* by a coroutine that has not started one before.
C27_NoRetry ==
    [][ /\ (pc = "built" /\ pc' = "gather") =>
              /\ DOMAIN tasks' = DOMAIN to_call
              /\ \A i, j \in DOMAIN to_call : KeyOf(to_call[i]) = KeyOf(to_call[j]) => i = j
        /\ (pc = "gather" /\ pc' = "gather") =>
              /\ to_call' = to_call
              /\ DOMAIN tasks' = DOMAIN tasks
              /\ \A i \in DOMAIN tasks :
                    /\ tasks[i].st # "pending" => tasks'[i].st # "pending"
                    /\ tasks[i].st \in {"done", "raised"} => tasks'[i] = tasks[i]
                    /\ (tasks'[i].proc = "running" /\ tasks[i].proc # "running") =>
                          (tasks[i].proc = "none" /\ tasks[i].st \in {"pending", "waiting"})
                    /\ tasks[i].proc \in {"exited", "killed"} => tasks'[i].proc = tasks[i].proc ]_vars

\* C27 happens: every coroutine of a batch has ended, one after its
\* subprocess was killed and one after its subprocess exited with an error.
C27_Witness ==
    /\ pc = "gather"
    /\ \A i \in DOMAIN tasks : tasks[i].st = "done"
    /\ \E i, j \in DOMAIN tasks :
          /\ tasks[i].proc = "killed"
          /\ tasks[j].proc = "exited" /\ IsFailure(tasks[j].result[1])

\* pending, in flight (waiting for the gate or in the external call), resolved.
Stage(st) ==
    CASE st = "pending" -> 0
      [] st \in {"waiting", "external"} -> 1
      [] st \in {"done", "raised"} -> 2

\* C28: during the gather no coroutine moves to an earlier stage of
\* pending, in flight, resolved, none goes from its external call back to
\* the wait for the gate, and one that has resolved does not change;
\* after the merge the key of a task is in the cache exactly when its
\* coroutine returned a Result with an artifact.
C28_TaskStateMachine ==
    [][ /\ (pc = "gather" /\ pc' = "gather") =>
              \A i \in DOMAIN tasks :
                  /\ i \in DOMAIN tasks'
                  /\ Stage(tasks[i].st) <= Stage(tasks'[i].st)
                  /\ tasks[i].st = "external" => tasks'[i].st # "waiting"
                  /\ Stage(tasks[i].st) = 2 => tasks'[i] = tasks[i]
        /\ (pc = "gather" /\ pc' = "merged") =>
              \A i \in DOMAIN tasks :
                  /\ Stage(tasks[i].st) = 2
                  /\ Truthy(tasks[i].result[1].svg) <=> KeyOf(to_call[i]) \in DOMAIN cache'
        /\ (pc \in {"merged", "saving", "report"} /\ pc' # "idle") => cache' = cache ]_vars

\* C28 happens: of one batch a task has succeeded, one has failed, one is in
\* its external call and one waits for the gate.
C28_Witness ==
    /\ pc = "gather"
    /\ \E a, b, c, d \in DOMAIN tasks :
          /\ tasks[a].st = "done" /\ Truthy(tasks[a].result[1].svg)
          /\ tasks[b].st = "done" /\ IsFailure(tasks[b].result[1])
          /\ tasks[c].st = "external"
          /\ tasks[d].st = "waiting"

\* C29: the cache mapping changes only when main loads it, when main merges
\* the results of the whole batch and when the process ends; until the merge
\* it is the mapping load_cache returned.
C29_CacheMutatedByMergeOnly ==
    [][ /\ cache' # cache =>
              \/ pc = "idle" /\ pc' = "loaded"
              \/ pc = "gather" /\ pc' = "merged"
              \/ pc' = "idle"
        /\ pc' \in {"loaded", "built", "gather"} => cache' = load_cache(store_at_load')[2] ]_vars

\* C29 happens: a task of the batch has returned an artifact while another
\* is still in flight, and the cache does not hold the artifact.
C29_Witness ==
    /\ pc = "gather"
    /\ \E i, j \in DOMAIN tasks :
          /\ tasks[i].st = "done" /\ Truthy(tasks[i].result[1].svg)
          /\ KeyOf(to_call[i]) \notin DOMAIN cache
          /\ tasks[j].st = "external"

\* C30: as long as a process has not called save_cache the store is what
\* load_cache found, whatever step the process takes, its termination
\* included, and it holds every key ever stored with an artifact.
C30_CrashBeforeSaveKeepsStore ==
    [][ (pc # "idle" /\ saves = 0 /\ saves' = 0) =>
            /\ file = store_at_load
            /\ file' = file
            /\ ever_stored \subseteq StoredArtifacts(file') ]_vars

\* C30 happens: a process was terminated; the store holds artifacts of
\* earlier runs and the report on disk is the one of that store, so the
\* store has not been written since that report.
C30_Witness ==
    /\ pc = "idle"
    /\ exit = "killed"
    /\ file.complete
    /\ ever_stored # {}
    /\ StoredArtifacts(file) = ever_stored
    /\ report = Some(build_html(load_cache(file)[2]))
    /\ last_failed # {}

\* The family of a model: the list of the roster that names it.
FamilyOf(m) ==
    CASE m \in Range(GEMINI_MODELS) -> "Gemini"
      [] m \in Range(CLAUDE_MODELS) -> "Claude"
      [] m \in Range(CODEX_MODELS)  -> "Codex"

\* The adapter of a family.
AdapterOf(family) ==
    CASE family = "Gemini" -> "call_gemini"
      [] family = "Claude" -> "call_claude"
      [] family = "Codex"  -> "call_codex"

\* C31: every entry of to_call names the adapter of its model's family, the
\* coroutine of a task is one of that adapter (it returns that family's
\* Results, only the CLI families have a subprocess, only Codex waits for
\* the gate), and every cache entry of a catalogue pair has the family of
\* its model as provider.
C31_DispatchByFamily ==
    /\ \A i \in DOMAIN to_call :
          /\ to_call[i].fn = AdapterOf(FamilyOf(to_call[i].m))
          /\ to_call[i].provider = FamilyOf(to_call[i].m)
    /\ \A i \in DOMAIN tasks :
          /\ tasks[i].result # None => tasks[i].result[1].provider = FamilyOf(to_call[i].m)
          /\ tasks[i].proc # "none" => FamilyOf(to_call[i].m) \in {"Claude", "Codex"}
          /\ tasks[i].st = "waiting" => FamilyOf(to_call[i].m) = "Codex"
    /\ \A i \in DOMAIN PROMPTS : \A j \in DOMAIN ALL_MODELS_ORDERED :
          LET key == cache_key(PROMPTS[i], ALL_MODELS_ORDERED[j].m)
          IN key \in DOMAIN cache => cache[key].provider = FamilyOf(ALL_MODELS_ORDERED[j].m)

\* C31 happens: a batch with a task of each family has been merged and the
\* cache holds a Result of each family.
C31_Witness ==
    /\ pc = "merged"
    /\ \A fam \in {"Gemini", "Claude", "Codex"} :
          /\ \E i \in DOMAIN to_call : to_call[i].provider = fam
          /\ \E k \in DOMAIN cache : cache[k].provider = fam

\* C32: when the subprocess of call_claude or call_codex exits with a
\* non-zero code the Result has no svg and its error is the stderr text,
\* or "exit code N" when stderr is empty; on exit code 0 the Result is what
\* extract_svg finds in stdout.
C32_NonZeroExitIsFailure ==
    (fn_out # None /\ fn_in.outcome.kind = "exit") =>
        LET o == fn_in.outcome
            r == fn_out[1].result
        IN IF o.rc # 0
           THEN /\ r.svg = None
                /\ r.error = Some(StrOr(Strip(o.stderr), "exit code " \o ToString(o.rc)))
           ELSE r.svg = OrNone(extract_svg(o.stdout))

\* C33: every group the report shows has a card under its static prompt
\* and a card under its animated prompt.
C33_GroupNeedsBothPrompts ==
    report # None =>
        \A i \in DOMAIN report[1] : report[1][i].static # <<>> /\ report[1][i].anim # <<>>

\* C34: whatever the order in which the coroutines of the batch returned,
\* the cache after the merge holds under the key of a task the artifact
\* made for that task, and no entry for a task that failed.
C34_ResultPairedWithItsTask ==
    fn_out # None =>
        \A i \in DOMAIN PairingTasks :
            LET t == PairingTasks[i]
                r == fn_in[CHOOSE k \in DOMAIN fn_in : fn_in[k].task = i].result
            IN IF Truthy(r.svg)
               THEN /\ KeyOf(t) \in DOMAIN fn_out[1]
                    /\ fn_out[1][KeyOf(t)].svg = Some(TaggedText(t))
                    /\ fn_out[1][KeyOf(t)].provider = t.provider
                    /\ fn_out[1][KeyOf(t)].error = None
               ELSE KeyOf(t) \notin DOMAIN fn_out[1]

\* C34 happens: the coroutines returned in the reverse of the list order,
\* the first and the last with an artifact, and the results were merged.
C34_Witness ==
    /\ fn_out # None
    /\ \A k \in DOMAIN fn_in : fn_in[k].task = Len(fn_in) + 1 - k
    /\ Truthy(fn_in[1].result.svg)
    /\ Truthy(fn_in[Len(fn_in)].result.svg)
    /\ ~Truthy(fn_in[2].result.svg)

\* Every entry has an artifact and no error.
AllArtifacts(c) == \A k \in DOMAIN c : Truthy(c[k].svg) /\ c[k].error = None

\* C35: starting from no store, the in-memory cache of every run and every
\* store that has been written out hold only entries with an artifact and
\* without an error; a store of such entries is followed by such a store.
C35_CacheEntriesHoldArtifacts ==
    /\ AllArtifacts(cache)
    /\ (file.exists /\ file.complete) => AllArtifacts(json_loads(file.doc))
    /\ (pc # "idle" /\ store_at_load.exists) => AllArtifacts(json_loads(store_at_load.doc))

\* C35 happens: a run that loaded a store of artifacts has saved a larger
\* one while one of its tasks failed.
C35_Witness ==
    /\ pc = "report"
    /\ saves = 1
    /\ store_at_load.exists /\ DOMAIN store_at_load.doc # {}
    /\ Cardinality(DOMAIN file.doc) > Cardinality(DOMAIN store_at_load.doc)
    /\ ~batch_ok

\* C37: a call_codex coroutine resolves only from its external call, with
\* its subprocess spawned; while it waits for the gate it has no subprocess
\* and its next step is the admission, never a Result.
C37_TimeoutOnlyAfterAdmission ==
    [][ (pc = "gather" /\ pc' = "gather") =>
            \A i \in DOMAIN tasks :
                /\ tasks[i].st = "waiting" =>
                      /\ tasks[i].proc = "none"
                      /\ tasks'[i].st \in {"waiting", "external", "done"}
                      /\ tasks'[i].st = "done" => tasks'[i].proc = "none"
                /\ (tasks'[i].st = "done" /\ tasks[i].st # "done"
                        /\ tasks'[i].result[1] = TimeoutResult("Codex", CODEX_TIMEOUT)) =>
                      /\ tasks[i].st = "external"
                      /\ tasks[i].proc = "running"
                      /\ tasks'[i].proc = "killed" ]_vars

\* C37 happens: a call_codex coroutine that had to wait for the gate was
\* admitted and then timed out.
C37_Witness ==
    /\ pc = "gather"
    /\ \E i, j \in DOMAIN tasks :
          /\ i < j
          /\ to_call[i].fn = "call_codex" /\ to_call[j].fn = "call_codex"
          /\ tasks[i].st = "done" /\ tasks[i].proc # "none"
          /\ tasks[j].st = "done" /\ tasks[j].proc = "killed"
          /\ tasks[j].result[1] = TimeoutResult("Codex", CODEX_TIMEOUT)

\* The coroutine of task i waits for the gate.
WaitsForGate(i) == pc = "gather" /\ i \in DOMAIN tasks /\ tasks[i].st = "waiting"

\* The coroutine of task i is in _codex_inner with its subprocess.
Admitted(i) == pc = "gather" /\ i \in DOMAIN tasks /\ tasks[i].st = "external"

\* The coroutine of task i has returned its Result.
Resolved(i) == pc = "gather" /\ i \in DOMAIN tasks /\ tasks[i].st = "done"

\* C36: every call_codex coroutine that waits for the gate is eventually
\* past it and returns its Result, and every admitted one returns its Result.
C36_GateLiveness ==
    \A i \in 1..(MaxCodex + 1) :
        /\ WaitsForGate(i) ~> Resolved(i)
        /\ Admitted(i) /\ to_call[i].fn = "call_codex" ~> Resolved(i)

\* C38: when every remote-API call returns or raises, the gather of a
\* batch is followed by the end of main with the store saved and the
\* report written.
C38_BatchTerminates ==
    (pc = "gather") ~> (pc = "idle" /\ exit = "exit 0" /\ file.complete /\ report # None)

====
